---- MODULE Spec2Model ----
(***************************************************************************)
(* gatorcli: the feed-polling loop of `gator agg` (handlerAgg and          *)
(* scrapeFeeds in main.go, FetchFeed in internal/feed) over the relational *)
(* store (users, feeds, feed_follows, posts), together with the one-shot   *)
(* commands that other invocations of the program run against the same     *)
(* store (register, addfeed, reset).                                       *)
(*                                                                         *)
(* Time is counted in units of TickSeconds seconds (clock): the budget of  *)
(* one fetch is one unit.  Every agg process p has a program counter pc[p] *)
(* that names the statement it is about to execute.                        *)
(* The store outlives the processes: a behaviour starts from a store that  *)
(* earlier invocations of the program have left.                           *)
(***************************************************************************)
EXTENDS Integers, Sequences, FiniteSets, TLC

\* ------------------------------------------------------------------ bounds
MaxClock == 4
MaxCycles == 3
MaxFeeds == 3
MaxUsers == 2
MaxItems == 2

\* ------------------------------------------------------ values and inputs
\* the unit of time, in seconds: the budget scrapeFeeds gives one fetch
TickSeconds == 10
\* context.WithTimeout(ctx, 10*time.Second), in units of time
FetchTimeout == 10 \div TickSeconds
Procs == {1, 2}
Null == -1
NoUser == 0
\* a config user_id that is no UUID
InvalidUserID == -2
NoFeed == [id |-> 0, name |-> "", url |-> "", user_id |-> 0,
           last_fetched_at |-> Null, updated_at |-> Null]
UserNames == {"alice", "bob"}
FeedNames == {"blog"}
UrlSeq == <<"a", "b", "c">>
Urls == {UrlSeq[i] : i \in 1..Len(UrlSeq)}
Links == {"l1", "l2"}
Titles == {"t1", "t2"}

\* feed.RSSItem, reduced to the two fields scrapeFeeds and the store use
RSSItem == [Title : Titles, Link : Links]

RECURSIVE SeqsUpTo(_, _)
SeqsUpTo(S, n) ==
    IF n = 0 THEN {<<>>}
    ELSE LET shorter == SeqsUpTo(S, n - 1)
         IN shorter \cup {Append(s, x) : s \in {t \in shorter : Len(t) = n - 1}, x \in S}

\* the Channel.Item slices a feed document can carry
ItemSeqs == SeqsUpTo(RSSItem, MaxItems)

\* what the network and the remote server can answer to one GET. Of the body:
\* wellFormed, whether the text up to the end tag of the root element is
\* well-formed XML; root, the name of the root element; trailing, whether text
\* that is not well-formed XML follows the root element; items, the item
\* elements of the channel
StatusCodes == {200, 203, 500}
Roots == {"rss", "feed"}
Responses ==
    {[kind |-> "neterr", status |-> 0, wellFormed |-> FALSE, root |-> "",
      trailing |-> FALSE, items |-> <<>>],
     [kind |-> "timeout", status |-> 0, wellFormed |-> FALSE, root |-> "",
      trailing |-> FALSE, items |-> <<>>]}
    \cup {[kind |-> "http", status |-> st, wellFormed |-> TRUE, root |-> "rss",
           trailing |-> FALSE, items |-> <<>>] : st \in StatusCodes \ {200}}
    \cup {[kind |-> "http", status |-> 200, wellFormed |-> FALSE, root |-> "",
           trailing |-> FALSE, items |-> <<>>]}
    \cup {[kind |-> "http", status |-> 200, wellFormed |-> TRUE, root |-> "rss",
           trailing |-> FALSE, items |-> it] : it \in ItemSeqs}

\* every answer one GET can get, whatever its status and its body: the inputs of
\* FetchFeed
HttpResponses ==
    {r \in Responses : r.kind /= "http"}
    \cup {[kind |-> "http", status |-> st, wellFormed |-> FALSE, root |-> "",
           trailing |-> FALSE, items |-> <<>>] : st \in StatusCodes}
    \cup {[kind |-> "http", status |-> st, wellFormed |-> TRUE, root |-> "rss",
           trailing |-> tr, items |-> it] :
             st \in StatusCodes, tr \in BOOLEAN, it \in ItemSeqs}
    \cup {[kind |-> "http", status |-> st, wellFormed |-> TRUE, root |-> rt,
           trailing |-> tr, items |-> <<>>] :
             st \in StatusCodes, rt \in Roots \ {"rss"}, tr \in BOOLEAN}
NoResponse == [kind |-> "none", status |-> 0, wellFormed |-> FALSE, root |-> "",
               trailing |-> FALSE, items |-> <<>>]
NoResult == [err |-> "none", code |-> 0, items |-> <<>>]
NoCall == [resp |-> NoResponse, out |-> NoResult]

\* the arguments `gator agg` can be given
AggArgs ==
    {<<>>, <<"10s">>, <<"20s">>, <<"0s">>, <<"-10s">>, <<"abc">>, <<"10s", "20s">>}

VARIABLES
    clock,      \* wall clock, in units of time
    users,      \* table users: set of [id, name]
    feeds,      \* table feeds: function feed id -> row
    follows,    \* table feed_follows: set of [id, user_id, feed_id]
    posts,      \* table posts: set of [url, title, feed_id]
    nextId,     \* [user |-> n, feed |-> n]: ids handed out so far (uuid.New is fresh)
    config,     \* Config.UserID of ~/.gatorcli.json (NoUser is the empty string)
    result,     \* the latest one-shot command and whether it exited with status 0
    pc,         \* per agg process: the statement it is at
    alive,      \* per agg process: FALSE once the process was stopped (Ctrl+C)
    interval,   \* per agg process: timeBetweenRequests
    tickerLeft, \* per agg process: units of time until the ticker's next tick
    tickerC,    \* per agg process: TRUE when a tick is buffered in ticker.C
    cycles,     \* per agg process: number of scrapeFeeds calls so far
    now,        \* per agg process: the now of the latest scrapeFeeds call
    feed,       \* per agg process: scrapeFeeds' local feed (NoFeed outside a call)
    markOk,     \* per agg process: whether this call's MarkFeedFetched returned nil
    rssFeed,    \* per agg process: the items of scrapeFeeds' local rssFeed
    outcome,    \* per agg process: how the latest finished scrapeFeeds call ended
    lastEnd,    \* per agg process: when the latest finished call returned
    selLog,     \* per agg process: the latest selections, newest last
    fetchStart, \* per agg process: when the fetch in progress started (Null: none)
    fetchCall   \* a call of feed.FetchFeed on its own: the response and the result

store == <<users, feeds, follows, posts, nextId, config>>
loopVars == <<pc, alive, interval, tickerLeft, tickerC, cycles, now, feed, markOk,
              rssFeed, outcome, lastEnd, selLog, fetchStart>>
vars == <<clock, store, result, loopVars, fetchCall>>

\* --------------------------------------------------------------- the store
FeedIds == DOMAIN feeds
FeedRows == {feeds[i] : i \in FeedIds}

\* ORDER BY last_fetched_at ASC NULLS FIRST: a is fetched no later than b
FetchOrderLeq(a, b) == a = Null \/ (b /= Null /\ a <= b)

\* GetNextFeedToFetch :one -- the rows the query can return (any one of the
\* rows that tie for the smallest last_fetched_at); empty is sql.ErrNoRows
GetNextFeedToFetch(fs) ==
    {fs[i] : i \in {j \in DOMAIN fs :
        \A k \in DOMAIN fs : FetchOrderLeq(fs[j].last_fetched_at, fs[k].last_fetched_at)}}

\* MarkFeedFetched :exec -- UPDATE feeds SET last_fetched_at, updated_at WHERE id
\* (no row with that id: nothing is updated and no error is returned)
MarkFeedFetched(fs, id, lastFetchedAt, updatedAt) ==
    [i \in DOMAIN fs |->
        IF i = id
        THEN [fs[i] EXCEPT !.last_fetched_at = lastFetchedAt, !.updated_at = updatedAt]
        ELSE fs[i]]

\* CreateFeed :one -- url is UNIQUE, user_id REFERENCES users(id)
CreateFeedFails(fs, us, url, userId) ==
    \/ \E i \in DOMAIN fs : fs[i].url = url
    \/ ~ \E u \in us : u.id = userId

CreateFeed(fs, id, at, name, url, userId) ==
    [i \in DOMAIN fs \cup {id} |->
        IF i = id
        THEN [id |-> id, name |-> name, url |-> url, user_id |-> userId,
              last_fetched_at |-> Null, updated_at |-> at]
        ELSE fs[i]]

\* the rows of feed_follows of one user and one feed
FollowsOf(ff, userId, feedId) ==
    {row \in ff : row.user_id = userId /\ row.feed_id = feedId}

\* CreateFeedFollow :one -- UNIQUE (user_id, feed_id)
CreateFeedFollowFails(ff, userId, feedId) == FollowsOf(ff, userId, feedId) /= {}

\* the new row's id is fresh (uuid.New): rows are numbered within their pair
CreateFeedFollow(ff, userId, feedId) ==
    ff \cup {[id |-> Cardinality(FollowsOf(ff, userId, feedId)) + 1,
              user_id |-> userId, feed_id |-> feedId]}

\* GetUserByID :one
GetUserByID(us, id) == {u \in us : u.id = id}

\* ------------------------------------------------------------ the fetcher
\* time.ParseDuration on the argument strings of AggArgs
ParseDuration(s) ==
    CASE s = "10s" -> [err |-> FALSE, d |-> 10 \div TickSeconds]
      [] s = "20s" -> [err |-> FALSE, d |-> 20 \div TickSeconds]
      [] s = "0s" -> [err |-> FALSE, d |-> 0]
      [] s = "-10s" -> [err |-> FALSE, d |-> 0 - (10 \div TickSeconds)]
      [] OTHER -> [err |-> TRUE, d |-> 0]

\* a body that is a well-formed XML document
WellFormedDocument(resp) == resp.wellFormed /\ ~resp.trailing

\* feed.FetchFeed: the error it returns ("" is nil), the status code the error
\* message carries, and the items of the feed. decoder.Decode reads the body
\* up to the end tag of its first element, which XMLName requires to be rss;
\* what follows that end tag is never read
FetchFeed(resp) ==
    IF resp.kind = "neterr" THEN [err |-> "neterr", code |-> 0, items |-> <<>>]
    ELSE IF resp.kind = "timeout" THEN [err |-> "timeout", code |-> 0, items |-> <<>>]
    ELSE IF resp.status /= 200
         THEN [err |-> "status", code |-> resp.status, items |-> <<>>]
    ELSE IF ~resp.wellFormed \/ resp.root /= "rss"
         THEN [err |-> "xml", code |-> 0, items |-> <<>>]
    ELSE [err |-> "", code |-> 0, items |-> resp.items]

\* step 4 as an insert of every item that does not look at the stored URLs
SavePostsUnchecked(ps, f, items) ==
    ps \cup {[url |-> items[k].Link, title |-> items[k].Title, feed_id |-> f.id] :
                k \in 1..Len(items)}

\* scrapeFeeds step 4: the items are printed; the posts table is not written
SavePosts(ps, f, items) == ps


\* ------------------------------------------------------------------- Init
\* The stores an agg process can find: alice registered and logged in, n feeds
\* that she added and follows, each never fetched or fetched at time 0 or 1.
\* Feed ids are arbitrary labels, so the rows are numbered by fetch order.
PastFetches == {Null, 0, 1}
InitFeedCounts == 0..(IF MaxFeeds < Len(UrlSeq) THEN MaxFeeds ELSE Len(UrlSeq))
InitFeeds ==
    UNION {
        {[i \in 1..n |->
            [id |-> i, name |-> "blog", url |-> UrlSeq[i], user_id |-> 1,
             last_fetched_at |-> t[i],
             updated_at |-> IF t[i] = Null THEN 0 ELSE t[i]]] :
         t \in {u \in [1..n -> PastFetches] :
                   \A i, j \in 1..n : i < j => FetchOrderLeq(u[i], u[j])}} :
        n \in InitFeedCounts}

InitStore ==
    /\ clock = 2
    /\ users = {[id |-> 1, name |-> "alice"]}
    /\ feeds \in InitFeeds
    /\ follows = {[id |-> 1, user_id |-> 1, feed_id |-> i] : i \in DOMAIN feeds}
    /\ posts = {}
    /\ nextId = [user |-> 1, feed |-> Cardinality(DOMAIN feeds)]
    /\ config = 1

\* no command has run and no agg process has started
InitLoop ==
    /\ result = [cmd |-> "none", ok |-> TRUE, arg |-> ""]
    /\ pc = [p \in Procs |-> "off"]
    /\ alive = [p \in Procs |-> TRUE]
    /\ interval = [p \in Procs |-> 0]
    /\ tickerLeft = [p \in Procs |-> 0]
    /\ tickerC = [p \in Procs |-> FALSE]
    /\ cycles = [p \in Procs |-> 0]
    /\ now = [p \in Procs |-> 0]
    /\ feed = [p \in Procs |-> NoFeed]
    /\ markOk = [p \in Procs |-> FALSE]
    /\ rssFeed = [p \in Procs |-> <<>>]
    /\ outcome = [p \in Procs |-> "none"]
    /\ lastEnd = [p \in Procs |-> Null]
    /\ selLog = [p \in Procs |-> <<>>]
    /\ fetchStart = [p \in Procs |-> Null]

InitState == InitStore /\ InitLoop

Init == InitState /\ fetchCall = NoCall

\* ------------------------------------------------------- one-shot commands
\* what main reports of a command: its name, whether it exited with status 0,
\* and the user name or feed URL it was given
Result(cmd, ok, arg) == [cmd |-> cmd, ok |-> ok, arg |-> arg]
Failed(cmd, arg) == Result(cmd, FALSE, arg)

\* the command lines: os.Args[2:] of a command over the given names and URLs
NoArgs == {<< >>}
OneArg(S) == {<<x>> : x \in S}
TwoArgs(S, T) == {<<x, y>> : x \in S, y \in T}
Arg1(args) == IF Len(args) >= 1 THEN args[1] ELSE ""
Arg2(args) == IF Len(args) >= 2 THEN args[2] ELSE ""

\* uuid.Parse of the string the config holds
ParsesAsUUID(s) == s > 0

\* a command that failed without having written anything
Fails(cmd, arg) ==
    /\ result' = Failed(cmd, arg)
    /\ UNCHANGED <<clock, store, loopVars, fetchCall>>

\* middlewareLoggedIn without the lookup of the user: the config's id is trusted
middlewareTrustsConfig ==
    IF config = NoUser \/ ~ParsesAsUUID(config) THEN {}
    ELSE {[id |-> config, name |-> ""]}

\* middlewareLoggedIn: the user the wrapped handler runs for (empty: an error)
middlewareLoggedIn ==
    IF config = NoUser THEN {}
    ELSE IF ~ParsesAsUUID(config) THEN {}
    ELSE GetUserByID(users, config)
\* a reset that also forgets the current user of the config file
handlerResetAndLogout ==
    \E dbErr \in BOOLEAN :
        IF dbErr THEN Fails("reset", "")
        ELSE /\ users' = {}
             /\ feeds' = << >>
             /\ follows' = {}
             /\ posts' = {}
             /\ config' = NoUser
             /\ result' = Result("reset", TRUE, "")
             /\ UNCHANGED <<clock, nextId, loopVars, fetchCall>>

\* TRUNCATE TABLE users RESTART IDENTITY CASCADE: every table that references
\* users, directly or through feeds, is emptied with it
handlerReset ==
    \E dbErr \in BOOLEAN :
        IF dbErr THEN Fails("reset", "")
        ELSE /\ users' = {}
             /\ feeds' = << >>
             /\ follows' = {}
             /\ posts' = {}
             /\ result' = Result("reset", TRUE, "")
             /\ UNCHANGED <<clock, nextId, config, loopVars, fetchCall>>

\* CreateUser, then Config.SetUser (which saves the config file)
handlerRegister(args) ==
    IF Len(args) = 0 THEN Fails("register", "")
    ELSE \E dbErr, saveErr \in BOOLEAN :
         LET username == args[1]
             userID == nextId.user + 1
         IN
         IF dbErr THEN Fails("register", username)
         ELSE /\ nextId.user < MaxUsers
              /\ users' = users \cup {[id |-> userID, name |-> username]}
              /\ nextId' = [nextId EXCEPT !.user = userID]
              /\ config' = IF saveErr THEN config ELSE userID
              /\ result' = Result("register", ~saveErr, username)
              /\ UNCHANGED <<clock, feeds, follows, posts, loopVars, fetchCall>>

\* a login that does not look the name up: the config gets the id of any user
handlerLoginAnyUser(args) ==
    IF Len(args) = 0 \/ users = {} THEN Fails("login", Arg1(args))
    ELSE \E user \in users :
         /\ config' = user.id
         /\ result' = Result("login", TRUE, args[1])
         /\ UNCHANGED <<clock, users, feeds, follows, posts, nextId, loopVars, fetchCall>>

\* GetUser by name, then Config.SetUser
handlerLogin(args) ==
    IF Len(args) = 0 THEN Fails("login", "")
    ELSE \E dbErr, saveErr \in BOOLEAN :
         LET username == args[1]
             found == {u \in users : u.name = username}
         IN
         IF dbErr \/ found = {} THEN Fails("login", username)
         ELSE \E user \in found :
              /\ config' = IF saveErr THEN config ELSE user.id
              /\ result' = Result("login", ~saveErr, username)
              /\ UNCHANGED <<clock, users, feeds, follows, posts, nextId, loopVars,
                             fetchCall>>

\* addfeed over a feeds table that has lost the uniqueness of url
handlerAddFeedAnyUrl(args) ==
    IF middlewareLoggedIn = {} \/ Len(args) /= 2 THEN Fails("addfeed", Arg2(args))
    ELSE LET user == CHOOSE u \in middlewareLoggedIn : TRUE
             feedID == nextId.feed + 1
         IN
         /\ nextId.feed < MaxFeeds
         /\ feeds' = CreateFeed(feeds, feedID, clock, args[1], args[2], user.id)
         /\ nextId' = [nextId EXCEPT !.feed = feedID]
         /\ follows' = CreateFeedFollow(follows, user.id, feedID)
         /\ result' = Result("addfeed", TRUE, args[2])
         /\ UNCHANGED <<clock, users, posts, config, loopVars, fetchCall>>

\* handlerAddFeed behind middlewareLoggedIn: CreateFeed, then CreateFeedFollow,
\* whose error is only logged as a warning
handlerAddFeed(args) ==
    IF middlewareLoggedIn = {} THEN Fails("addfeed", Arg2(args))
    ELSE IF Len(args) /= 2 THEN Fails("addfeed", Arg2(args))
    ELSE \E dbErr, followErr \in BOOLEAN :
         LET user == CHOOSE u \in middlewareLoggedIn : TRUE
             feedName == args[1]
             feedURL == args[2]
             feedID == nextId.feed + 1
         IN
         IF dbErr \/ CreateFeedFails(feeds, users, feedURL, user.id)
         THEN Fails("addfeed", feedURL)
         ELSE /\ nextId.feed < MaxFeeds
              /\ feeds' = CreateFeed(feeds, feedID, clock, feedName, feedURL, user.id)
              /\ nextId' = [nextId EXCEPT !.feed = feedID]
              /\ follows' = IF followErr \/ CreateFeedFollowFails(follows, user.id, feedID)
                            THEN follows
                            ELSE CreateFeedFollow(follows, user.id, feedID)
              /\ result' = Result("addfeed", TRUE, feedURL)
              /\ UNCHANGED <<clock, users, posts, config, loopVars, fetchCall>>

\* GetFeedByUrl :one
GetFeedByUrl(fs, url) == {fs[i] : i \in {j \in DOMAIN fs : fs[j].url = url}}
\* follow over a feed_follows table that has lost its UNIQUE constraint
handlerFollowAnyPair(args) ==
    IF middlewareLoggedIn = {} \/ Len(args) /= 1 THEN Fails("follow", Arg1(args))
    ELSE LET user == CHOOSE u \in middlewareLoggedIn : TRUE
             found == GetFeedByUrl(feeds, args[1])
         IN
         IF found = {} THEN Fails("follow", args[1])
         ELSE \E f \in found :
              /\ follows' = CreateFeedFollow(follows, user.id, f.id)
              /\ result' = Result("follow", TRUE, args[1])
              /\ UNCHANGED <<clock, users, feeds, posts, nextId, config, loopVars,
                             fetchCall>>

\* handlerFollow behind middlewareLoggedIn: GetFeedByUrl, CreateFeedFollow, then
\* GetFeedFollowForUserAndFeed for the confirmation
handlerFollow(args) ==
    IF middlewareLoggedIn = {} THEN Fails("follow", Arg1(args))
    ELSE IF Len(args) /= 1 THEN Fails("follow", Arg1(args))
    ELSE \E dbErr, readErr \in BOOLEAN :
         LET user == CHOOSE u \in middlewareLoggedIn : TRUE
             feedURL == args[1]
             found == GetFeedByUrl(feeds, feedURL)
         IN
         IF found = {} THEN Fails("follow", feedURL)
         ELSE \E f \in found :
              IF dbErr \/ CreateFeedFollowFails(follows, user.id, f.id)
              THEN Fails("follow", feedURL)
              ELSE /\ follows' = CreateFeedFollow(follows, user.id, f.id)
                   /\ result' = Result("follow", ~readErr, feedURL)
                   /\ UNCHANGED <<clock, users, feeds, posts, nextId, config, loopVars,
                                  fetchCall>>

\* DeleteFeedFollow :exec (no such row: nothing is deleted and no error)
DeleteFeedFollow(ff, userId, feedId) == ff \ FollowsOf(ff, userId, feedId)

\* handlerUnfollow behind middlewareLoggedIn: GetFeedByUrl, then DeleteFeedFollow
handlerUnfollow(args) ==
    IF middlewareLoggedIn = {} THEN Fails("unfollow", Arg1(args))
    ELSE IF Len(args) /= 1 THEN Fails("unfollow", Arg1(args))
    ELSE \E dbErr \in BOOLEAN :
         LET user == CHOOSE u \in middlewareLoggedIn : TRUE
             feedURL == args[1]
             found == GetFeedByUrl(feeds, feedURL)
         IN
         IF found = {} \/ dbErr THEN Fails("unfollow", feedURL)
         ELSE \E f \in found :
              /\ follows' = DeleteFeedFollow(follows, user.id, f.id)
              /\ result' = Result("unfollow", TRUE, feedURL)
              /\ UNCHANGED <<clock, users, feeds, posts, nextId, config, loopVars,
                             fetchCall>>

\* handlerFollowing behind middlewareLoggedIn: GetFeedFollowsForUser, printed
handlerFollowing ==
    IF middlewareLoggedIn = {} THEN Fails("following", "")
    ELSE \E dbErr \in BOOLEAN :
         LET user == CHOOSE u \in middlewareLoggedIn : TRUE IN
         /\ result' = Result("following", ~dbErr, "")
         /\ UNCHANGED <<clock, store, loopVars, fetchCall>>

\* the commands another invocation of the program can run, over the given
\* user names and feed URLs (commands.run, main.go 43-49)
UserCommands(names) ==
    \/ handlerReset
    \/ \E args \in NoArgs \cup OneArg(names) : handlerRegister(args)
    \/ \E args \in NoArgs \cup OneArg(names) : handlerLogin(args)
FeedCommands(urls) ==
    \/ \E args \in OneArg(urls) \cup TwoArgs(FeedNames, urls) : handlerAddFeed(args)
    \/ \E args \in NoArgs \cup OneArg(urls) : handlerFollow(args)
    \/ \E args \in NoArgs \cup OneArg(urls) : handlerUnfollow(args)
    \/ handlerFollowing
Commands(names, urls) == UserCommands(names) \/ FeedCommands(urls)

\* ------------------------------------------------------------ the agg loop
Running(p) == alive[p] /\ pc[p] \notin {"off", "exited", "panicked"}

\* the budget of p's fetch in progress is used up (the context's deadline)
FetchExpired(p) == fetchStart[p] /= Null /\ clock >= fetchStart[p] + FetchTimeout

\* the selections remembered per process: one entry per scrapeFeeds call that
\* ran the selection query: id is the selected feed (0: no feed was returned),
\* lfa the last_fetched_at of every feed at that time, ok the mark's success
LogLen == MaxFeeds
Logged(log, e) ==
    LET l == Append(log, e) IN
    IF Len(l) > LogLen THEN SubSeq(l, 2, Len(l)) ELSE l

\* handlerAgg up to its first call of scrapeFeeds (main.go 181-199)
handlerAgg(p, argss) ==
    /\ alive[p] /\ pc[p] = "off"
    /\ \E args \in argss :
        IF Len(args) /= 1 THEN
            /\ pc' = [pc EXCEPT ![p] = "exited"]
            /\ UNCHANGED <<interval, tickerC, tickerLeft>>
        ELSE LET parsed == ParseDuration(args[1]) IN
            IF parsed.err THEN
                /\ pc' = [pc EXCEPT ![p] = "exited"]
                /\ UNCHANGED <<interval, tickerC, tickerLeft>>
            ELSE IF parsed.d <= 0 THEN
                \* time.NewTicker panics on a non-positive interval
                /\ pc' = [pc EXCEPT ![p] = "panicked"]
                /\ UNCHANGED <<interval, tickerC, tickerLeft>>
            ELSE
                /\ pc' = [pc EXCEPT ![p] = "first"]
                /\ interval' = [interval EXCEPT ![p] = parsed.d]
                /\ tickerLeft' = [tickerLeft EXCEPT ![p] = parsed.d]
                /\ tickerC' = [tickerC EXCEPT ![p] = FALSE]
    /\ UNCHANGED <<clock, store, result, fetchCall, fetchStart, alive, cycles, now, feed, markOk, rssFeed,
                   outcome, lastEnd, selLog>>

\* a call that keeps the time read by the process's first call
scrapeFeeds_EnterStaleNow(p, maxCycles) ==
    /\ alive[p] /\ pc[p] \in {"first", "loop"}
    /\ cycles[p] < maxCycles
    /\ pc' = [pc EXCEPT ![p] = "select"]
    /\ cycles' = [cycles EXCEPT ![p] = @ + 1]
    /\ now' = [now EXCEPT ![p] = IF cycles[p] = 0 THEN clock ELSE @]
    /\ UNCHANGED <<clock, store, result, fetchCall, fetchStart, alive, interval, tickerC, tickerLeft, feed,
                   markOk, rssFeed, outcome, lastEnd, selLog>>

\* scrapeFeeds is entered (main.go 199 or 203) and reads the clock (135-137);
\* two calls of one process never read the same time
scrapeFeeds_Enter(p, maxCycles) ==
    /\ alive[p] /\ pc[p] \in {"first", "loop"}
    /\ cycles[p] < maxCycles
    /\ clock > now[p]
    /\ pc' = [pc EXCEPT ![p] = "select"]
    /\ cycles' = [cycles EXCEPT ![p] = @ + 1]
    /\ now' = [now EXCEPT ![p] = clock]
    /\ UNCHANGED <<clock, store, result, fetchCall, fetchStart, alive, interval, tickerC, tickerLeft, feed,
                   markOk, rssFeed, outcome, lastEnd, selLog>>

\* scrapeFeeds returns to handlerAgg: after the call of line 199 the for loop is
\* entered and its body runs at once; after the call of line 203 the post
\* statement <-ticker.C runs
Return(p, how) ==
    /\ pc' = [pc EXCEPT ![p] = IF cycles[p] = 1 THEN "loop" ELSE "wait"]
    /\ outcome' = [outcome EXCEPT ![p] = how]
    /\ lastEnd' = [lastEnd EXCEPT ![p] = clock]
    /\ feed' = [feed EXCEPT ![p] = NoFeed]
    /\ markOk' = [markOk EXCEPT ![p] = FALSE]
    /\ rssFeed' = [rssFeed EXCEPT ![p] = <<>>]
    /\ fetchStart' = [fetchStart EXCEPT ![p] = Null]

LogEntry(id) ==
    [id |-> id, ok |-> FALSE,
     lfa |-> [i \in DOMAIN feeds |-> feeds[i].last_fetched_at]]

\* step 1 with a selection that ignores the fetch order: any feed is taken
scrapeFeeds_SelectAnyFeed(p) ==
    /\ alive[p] /\ pc[p] = "select"
    /\ \E i \in DOMAIN feeds :
          /\ feed' = [feed EXCEPT ![p] = feeds[i]]
          /\ pc' = [pc EXCEPT ![p] = "mark"]
          /\ selLog' = [selLog EXCEPT ![p] = Logged(@, LogEntry(i))]
    /\ UNCHANGED <<clock, store, result, fetchCall, fetchStart, alive, interval, tickerC, tickerLeft, cycles, now,
                   outcome, lastEnd, markOk, rssFeed>>
\* step 1 that takes an empty feeds table for a fatal error (as log.Fatalf would)
scrapeFeeds_NoFeedsFatal(p) ==
    /\ alive[p] /\ pc[p] = "select"
    /\ \/ /\ Return(p, "selecterr")
          /\ selLog' = [selLog EXCEPT ![p] = Logged(@, LogEntry(0))]
       \/ /\ GetNextFeedToFetch(feeds) = {}
          /\ pc' = [pc EXCEPT ![p] = "exited"]
          /\ selLog' = [selLog EXCEPT ![p] = Logged(@, LogEntry(0))]
          /\ UNCHANGED <<fetchStart, outcome, lastEnd, feed, markOk, rssFeed>>
       \/ \E f \in GetNextFeedToFetch(feeds) :
          /\ feed' = [feed EXCEPT ![p] = f]
          /\ pc' = [pc EXCEPT ![p] = "mark"]
          /\ selLog' = [selLog EXCEPT ![p] = Logged(@, LogEntry(f.id))]
          /\ UNCHANGED <<fetchStart, outcome, lastEnd, markOk, rssFeed>>
    /\ UNCHANGED <<clock, store, result, fetchCall, alive, interval, tickerC, tickerLeft,
                   cycles, now>>

\* step 1 (main.go 139-150)
scrapeFeeds_GetNextFeedToFetch(p) ==
    /\ alive[p] /\ pc[p] = "select"
    /\ \/ /\ Return(p, "selecterr")
          /\ selLog' = [selLog EXCEPT ![p] = Logged(@, LogEntry(0))]
       \/ /\ GetNextFeedToFetch(feeds) = {}
          /\ Return(p, "nofeeds")
          /\ selLog' = [selLog EXCEPT ![p] = Logged(@, LogEntry(0))]
       \/ \E f \in GetNextFeedToFetch(feeds) :
          /\ feed' = [feed EXCEPT ![p] = f]
          /\ pc' = [pc EXCEPT ![p] = "mark"]
          /\ selLog' = [selLog EXCEPT ![p] = Logged(@, LogEntry(f.id))]
          /\ UNCHANGED <<fetchStart, outcome, lastEnd, markOk, rssFeed>>
    /\ UNCHANGED <<clock, store, result, fetchCall, alive, interval, tickerC, tickerLeft, cycles, now>>

\* step 2 that reports success without having written the row
scrapeFeeds_MarkSkipped(p) ==
    /\ alive[p] /\ pc[p] = "mark"
    /\ markOk' = [markOk EXCEPT ![p] = TRUE]
    /\ selLog' = [selLog EXCEPT ![p][Len(selLog[p])].ok = TRUE]
    /\ pc' = [pc EXCEPT ![p] = "fetch"]
    /\ fetchStart' = [fetchStart EXCEPT ![p] = clock]
    /\ UNCHANGED <<clock, store, result, fetchCall, alive, interval,
                   tickerC, tickerLeft, cycles, now, feed, rssFeed, outcome, lastEnd>>

\* step 2 that writes the time of the update instead of the call's now
scrapeFeeds_MarkAtUpdateTime(p) ==
    /\ alive[p] /\ pc[p] = "mark"
    /\ \E dbErr \in BOOLEAN :
        /\ feeds' = IF dbErr THEN feeds
                    ELSE MarkFeedFetched(feeds, feed[p].id, clock, clock)
        /\ markOk' = [markOk EXCEPT ![p] = ~dbErr]
        /\ selLog' = [selLog EXCEPT ![p][Len(selLog[p])].ok = ~dbErr]
    /\ pc' = [pc EXCEPT ![p] = "fetch"]
    /\ fetchStart' = [fetchStart EXCEPT ![p] = clock]
    /\ UNCHANGED <<clock, users, follows, posts, nextId, config, result, fetchCall, alive, interval,
                   tickerC, tickerLeft, cycles, now, feed, rssFeed, outcome, lastEnd>>
\* step 2 that takes an update of no row for a fatal error: the process ends
\* when the selected feed is no longer in the table
scrapeFeeds_MarkMissingRowFatal(p) ==
    /\ alive[p] /\ pc[p] = "mark"
    /\ \E dbErr \in BOOLEAN :
        /\ feeds' = IF dbErr THEN feeds
                    ELSE MarkFeedFetched(feeds, feed[p].id, now[p], now[p])
        /\ markOk' = [markOk EXCEPT ![p] = ~dbErr]
        /\ selLog' = [selLog EXCEPT ![p][Len(selLog[p])].ok = ~dbErr]
    /\ pc' = [pc EXCEPT ![p] = IF feed[p].id \in DOMAIN feeds THEN "fetch" ELSE "exited"]
    /\ fetchStart' = [fetchStart EXCEPT ![p] = clock]
    /\ UNCHANGED <<clock, users, follows, posts, nextId, config, result, fetchCall, alive,
                   interval, tickerC, tickerLeft, cycles, now, feed, rssFeed, outcome, lastEnd>>

\* step 2 with an update that has lost its WHERE clause: every feed is marked
scrapeFeeds_MarkEveryFeed(p) ==
    /\ alive[p] /\ pc[p] = "mark"
    /\ \E dbErr \in BOOLEAN :
        /\ feeds' = IF dbErr THEN feeds
                    ELSE [i \in DOMAIN feeds |->
                            [feeds[i] EXCEPT !.last_fetched_at = now[p],
                                             !.updated_at = now[p]]]
        /\ markOk' = [markOk EXCEPT ![p] = ~dbErr]
        /\ selLog' = [selLog EXCEPT ![p][Len(selLog[p])].ok = ~dbErr]
    /\ pc' = [pc EXCEPT ![p] = "fetch"]
    /\ fetchStart' = [fetchStart EXCEPT ![p] = clock]
    /\ UNCHANGED <<clock, users, follows, posts, nextId, config, result, fetchCall, alive,
                   interval, tickerC, tickerLeft, cycles, now, feed, rssFeed, outcome, lastEnd>>

\* step 2 (main.go 152-160): an error is logged and the call goes on
scrapeFeeds_MarkFeedFetched(p) ==
    /\ alive[p] /\ pc[p] = "mark"
    /\ \E dbErr \in BOOLEAN :
        /\ feeds' = IF dbErr THEN feeds
                    ELSE MarkFeedFetched(feeds, feed[p].id, now[p], now[p])
        /\ markOk' = [markOk EXCEPT ![p] = ~dbErr]
        /\ selLog' = [selLog EXCEPT ![p][Len(selLog[p])].ok = ~dbErr]
    /\ pc' = [pc EXCEPT ![p] = "fetch"]
    /\ fetchStart' = [fetchStart EXCEPT ![p] = clock]
    /\ UNCHANGED <<clock, users, follows, posts, nextId, config, result, fetchCall, alive, interval,
                   tickerC, tickerLeft, cycles, now, feed, rssFeed, outcome, lastEnd>>

\* step 3 with a fetch error that ends the process (as log.Fatalf would)
scrapeFeeds_FetchFeedFatal(p, resps) ==
    /\ alive[p] /\ pc[p] = "fetch"
    /\ \E resp \in resps :
        /\ resp.kind = "timeout" => FetchExpired(p)
        /\ LET r == FetchFeed(resp) IN
           IF r.err /= "" THEN
                /\ pc' = [pc EXCEPT ![p] = "exited"]
                /\ UNCHANGED <<fetchStart, outcome, lastEnd, feed, markOk, rssFeed>>
           ELSE /\ rssFeed' = [rssFeed EXCEPT ![p] = r.items]
                /\ pc' = [pc EXCEPT ![p] = "items"]
                /\ UNCHANGED <<fetchStart, outcome, lastEnd, feed, markOk>>
    /\ UNCHANGED <<clock, store, result, fetchCall, alive, interval, tickerC, tickerLeft, cycles, now,
                   selLog>>

\* step 3 that puts the old last_fetched_at back when the fetch fails in transit
scrapeFeeds_FetchFeedRollback(p, resps) ==
    /\ alive[p] /\ pc[p] = "fetch"
    /\ \E resp \in resps :
        /\ resp.kind = "timeout" => FetchExpired(p)
        /\ LET r == FetchFeed(resp) IN
           IF r.err /= "" THEN
                /\ Return(p, r.err)
                /\ feeds' = IF r.err \in {"neterr", "timeout"}
                            THEN MarkFeedFetched(feeds, feed[p].id, feed[p].last_fetched_at,
                                                 feed[p].updated_at)
                            ELSE feeds
           ELSE /\ rssFeed' = [rssFeed EXCEPT ![p] = r.items]
                /\ pc' = [pc EXCEPT ![p] = "items"]
                /\ UNCHANGED <<fetchStart, outcome, lastEnd, feed, markOk, feeds>>
    /\ UNCHANGED <<clock, users, follows, posts, nextId, config, result, fetchCall, alive, interval,
                   tickerC, tickerLeft, cycles, now, selLog>>
\* step 3 that answers a failed fetch with another selection in the same call
scrapeFeeds_FetchFeedThenNextFeed(p, resps) ==
    /\ alive[p] /\ pc[p] = "fetch"
    /\ \E resp \in resps :
        /\ resp.kind = "timeout" => FetchExpired(p)
        /\ LET r == FetchFeed(resp) IN
           IF r.err /= "" THEN
                /\ pc' = [pc EXCEPT ![p] = "select"]
                /\ outcome' = [outcome EXCEPT ![p] = r.err]
                /\ UNCHANGED <<fetchStart, lastEnd, feed, markOk, rssFeed>>
           ELSE /\ rssFeed' = [rssFeed EXCEPT ![p] = r.items]
                /\ pc' = [pc EXCEPT ![p] = "items"]
                /\ UNCHANGED <<fetchStart, outcome, lastEnd, feed, markOk>>
    /\ UNCHANGED <<clock, store, result, fetchCall, alive, interval, tickerC, tickerLeft,
                   cycles, now, selLog>>

\* step 3 (main.go 162-171)
scrapeFeeds_FetchFeed(p, resps) ==
    /\ alive[p] /\ pc[p] = "fetch"
    /\ \E resp \in resps :
        /\ resp.kind = "timeout" => FetchExpired(p)
        /\ LET r == FetchFeed(resp) IN
           IF r.err /= "" THEN Return(p, r.err)
           ELSE /\ rssFeed' = [rssFeed EXCEPT ![p] = r.items]
                /\ pc' = [pc EXCEPT ![p] = "items"]
                /\ UNCHANGED <<fetchStart, outcome, lastEnd, feed, markOk>>
    /\ UNCHANGED <<clock, store, result, fetchCall, alive, interval, tickerC, tickerLeft, cycles, now,
                   selLog>>

\* step 4 (main.go 173-179)
scrapeFeeds_Items(p) ==
    /\ alive[p] /\ pc[p] = "items"
    /\ posts' = SavePosts(posts, feed[p], rssFeed[p])
    /\ Return(p, "ok")
    /\ UNCHANGED <<clock, users, feeds, follows, nextId, config, result, fetchCall, alive, interval,
                   tickerC, tickerLeft, cycles, now, selLog>>

\* the for loop's post statement <-ticker.C (main.go 202)
handlerAgg_Wait(p) ==
    /\ alive[p] /\ pc[p] = "wait"
    /\ tickerC[p]
    /\ tickerC' = [tickerC EXCEPT ![p] = FALSE]
    /\ pc' = [pc EXCEPT ![p] = "loop"]
    /\ UNCHANGED <<clock, store, result, fetchCall, fetchStart, alive, interval, tickerLeft, cycles, now, feed,
                   markOk, rssFeed, outcome, lastEnd, selLog>>

\* Ctrl+C, or any other stop of the process, at whatever statement it is
Stop(p) ==
    /\ Running(p)
    /\ alive' = [alive EXCEPT ![p] = FALSE]
    /\ UNCHANGED <<clock, store, result, fetchCall, fetchStart, pc, interval, tickerC, tickerLeft, cycles, now,
                   feed, markOk, rssFeed, outcome, lastEnd, selLog>>
\* the passing of time with no deadline on the fetch (a request made with
\* context.Background())
TickNoDeadline ==
    /\ clock < MaxClock
    /\ clock' = clock + 1
    /\ tickerC' = [p \in Procs |-> tickerC[p] \/ (Running(p) /\ tickerLeft[p] = 1)]
    /\ tickerLeft' = [p \in Procs |->
           IF ~Running(p) THEN tickerLeft[p]
           ELSE IF tickerLeft[p] = 1 THEN interval[p] ELSE tickerLeft[p] - 1]
    /\ UNCHANGED <<store, result, fetchCall, fetchStart, pc, alive, interval, cycles, now,
                   feed, markOk, rssFeed, outcome, lastEnd, selLog>>

\* a unit of time passes; a ticker sends on its channel every interval after it was
\* made (time.NewTicker, main.go 195) and drops the tick when one is buffered;
\* a fetch does not go on past its deadline (context.WithTimeout, main.go 163)
Tick ==
    /\ clock < MaxClock
    /\ \A p \in Procs : (Running(p) /\ pc[p] = "fetch") => ~FetchExpired(p)
    /\ clock' = clock + 1
    /\ tickerC' = [p \in Procs |-> tickerC[p] \/ (Running(p) /\ tickerLeft[p] = 1)]
    /\ tickerLeft' = [p \in Procs |->
           IF ~Running(p) THEN tickerLeft[p]
           ELSE IF tickerLeft[p] = 1 THEN interval[p] ELSE tickerLeft[p] - 1]
    /\ UNCHANGED <<store, result, fetchCall, fetchStart, pc, alive, interval, cycles, now, feed,
                   markOk, rssFeed, outcome, lastEnd, selLog>>

\* the steps of one agg process, given the arguments it can be started with,
\* the answers its fetches can get and the number of calls it is followed for
Agg(p, argss, resps, maxCycles) ==
    \/ handlerAgg(p, argss)
    \/ scrapeFeeds_Enter(p, maxCycles)
    \/ scrapeFeeds_GetNextFeedToFetch(p)
    \/ scrapeFeeds_MarkFeedFetched(p)
    \/ scrapeFeeds_FetchFeed(p, resps)
    \/ scrapeFeeds_Items(p)
    \/ handlerAgg_Wait(p)

\* one agg process polling a store that no other process writes; the feed
\* documents it gets carry at most one item
SchedResponses == {r \in Responses : Len(r.items) <= 1}
Next == Agg(1, AggArgs, SchedResponses, MaxCycles) \/ Tick
Spec == Init /\ [][Next]_vars

\* the same, with the process stopped at any moment
NextStop == Next \/ Stop(1)
SpecStop == Init /\ [][NextStop]_vars

\* one agg process polling a store of one feed, whose documents carry any items
OneFeed == Cardinality(DOMAIN feeds) = 1
ItemsArgs == {<<"10s">>}
InitItems == Init /\ OneFeed
NextItems == Agg(1, ItemsArgs, Responses, MaxCycles) \/ Tick
SpecItems == InitItems /\ [][NextItems]_vars

\* two agg processes polling the same store, which holds one feed
MultiCycles == 2
MultiResponses == {r \in Responses : r.kind = "timeout" \/ (r.wellFormed /\ r.status = 200 /\ r.items = <<>>)}
InitMulti == Init /\ OneFeed
NextMulti == (\E p \in Procs : Agg(p, ItemsArgs, MultiResponses, MultiCycles)) \/ Tick
SpecMulti == InitMulti /\ [][NextMulti]_vars

\* the one-shot commands alone, from an empty store (the schema just migrated)
\* and a config file that is absent or holds a user_id that is no UUID
InitCmds ==
    /\ clock = 2
    /\ users = {} /\ feeds = << >> /\ follows = {} /\ posts = {}
    /\ nextId = [user |-> 0, feed |-> 0]
    /\ config \in {NoUser, InvalidUserID}
    /\ InitLoop
    /\ fetchCall = NoCall
CmdNames == {"alice"}
CmdUrls == {"a", "b"}
NextCmds == Commands(CmdNames, CmdUrls)
SpecCmds == InitCmds /\ [][NextCmds]_vars

\* the commands on users alone, over two user names
NextUsers == UserCommands(UserNames)
SpecUsers == InitCmds /\ [][NextUsers]_vars

\* one agg process polling a store of at most one feed while another
\* invocation of the program adds a feed
CmdCycles == 2
CmdResponses == {r \in Responses : r.kind = "neterr" \/ (r.status = 200 /\ r.items = << >>)}
AddedUrls == {"b"}
InitAggAdd == Init /\ Cardinality(DOMAIN feeds) <= 1
NextAggAdd ==
    \/ Agg(1, ItemsArgs, CmdResponses, CmdCycles)
    \/ Tick
    \/ \E args \in TwoArgs(FeedNames, AddedUrls) : handlerAddFeed(args)
SpecAggAdd == InitAggAdd /\ [][NextAggAdd]_vars

\* one agg process polling a store of one feed while other invocations of the
\* program reset the store and add, follow and unfollow the feed's URL
KnownUrls == {"a"}
InitAggCmds == Init /\ OneFeed
NextAggCmds ==
    \/ Agg(1, ItemsArgs, CmdResponses, CmdCycles)
    \/ Tick
    \/ handlerReset
    \/ FeedCommands(KnownUrls)
SpecAggCmds == InitAggCmds /\ [][NextAggCmds]_vars

\* the polling of one feed with time that goes on and a fetch that ends when its
\* deadline has come: the answer of the remote server may never arrive, the
\* expiry of the context always does
TimedOut == {r \in Responses : r.kind = "timeout"}
SpecTimed ==
    /\ InitItems /\ [][NextItems]_vars
    /\ WF_vars(Tick)
    /\ WF_vars(scrapeFeeds_FetchFeed(1, TimedOut))

\* feed.FetchFeed on its own, called once on any answer a GET can get
InitFetchFeed ==
    /\ InitState
    /\ fetchCall \in {[resp |-> r, out |-> NoResult] : r \in HttpResponses}
CallFetchFeed ==
    /\ fetchCall.out = NoResult
    /\ fetchCall' = [fetchCall EXCEPT !.out = FetchFeed(fetchCall.resp)]
    /\ UNCHANGED <<clock, store, result, loopVars>>
SpecFetchFeed == InitFetchFeed /\ [][CallFetchFeed]_vars

\* ------------------------------------------------------------ main's dispatch
\* the names main registers (main.go 396-404)
Registered ==
    {"reset", "register", "login", "addfeed", "feeds", "follow", "unfollow",
     "following", "agg"}

\* a word typed on the command line: its letters in lower case, and the
\* positions of the letters that were typed in upper case
CommandNames == Registered \cup {"bogus"}
Cases == {{}, {1}, {1, 2}}
Words == {[name |-> n, caps |-> c] : n \in CommandNames, c \in Cases}

\* a word that does no conversion: the name is kept as it was typed
ToLowerAsTyped(w) == w

\* strings.ToLower: no letter is in upper case
ToLower(w) == [w EXCEPT !.caps = {}]

\* the keys of commands.Handlers
Handlers == {[name |-> n, caps |-> {}] : n \in Registered}

\* handlerListFeeds: GetFeedsWithUserName, printed
handlerListFeeds ==
    \E dbErr \in BOOLEAN :
        /\ result' = Result("feeds", ~dbErr, "")
        /\ UNCHANGED <<clock, store, loopVars, fetchCall>>

\* commands.run: the handler registered under the name, or an error
run(cmdName, args) ==
    IF cmdName \notin Handlers THEN Fails("unknown", "")
    ELSE CASE cmdName.name = "reset" -> handlerReset
           [] cmdName.name = "register" -> handlerRegister(args)
           [] cmdName.name = "login" -> handlerLogin(args)
           [] cmdName.name = "addfeed" -> handlerAddFeed(args)
           [] cmdName.name = "feeds" -> handlerListFeeds
           [] cmdName.name = "follow" -> handlerFollow(args)
           [] cmdName.name = "unfollow" -> handlerUnfollow(args)
           [] cmdName.name = "following" -> handlerFollowing
           [] cmdName.name = "agg" -> \E p \in Procs : handlerAgg(p, {args})

\* main from the check of os.Args on (main.go 406-419); argv is os.Args[1:]
main(argv) ==
    IF Len(argv) < 1 THEN Fails("usage", "")
    ELSE LET commandName == ToLower(argv[1])
             commandArgs == Tail(argv)
         IN run(commandName, commandArgs)

\* the command lines: any word in any letter case, alone or with the arguments
\* its command takes
ArgsOf(name) ==
    CASE name \in {"register", "login", "bogus"} -> OneArg(CmdNames)
      [] name = "addfeed" -> TwoArgs(FeedNames, KnownUrls)
      [] name \in {"follow", "unfollow"} -> OneArg(KnownUrls)
      [] name = "agg" -> ItemsArgs
      [] OTHER -> NoArgs
CommandLines ==
    {<< >>} \cup UNION {{<<w>> \o args : args \in NoArgs \cup ArgsOf(w.name)} :
                         w \in Words}
NextMain == \E argv \in CommandLines : main(argv)
SpecMain == InitCmds /\ [][NextMain]_vars

\* ------------------------------------------------- unescapeHTMLFields alone
\* a text is the sequence of its characters and character references, as the
\* XML decoder left them in a field

\* html.UnescapeString: every character reference becomes its character
UnescapeChar(c) ==
    CASE c = "&amp;" -> "&"
      [] c = "&#39;" -> "'"
      [] OTHER -> c
UnescapeString(text) == [k \in DOMAIN text |-> UnescapeChar(text[k])]

\* the decoded documents: RSSFeed with the four fields of every RSSItem
ItemTitles == {<<"a">>, <<"&amp;">>, <<"a", "&#39;">>}
ItemLinks == {<<"a">>, <<"a", "&amp;">>}
ItemDescriptions == {<< >>, <<"&#39;", "&amp;">>}
ItemDates == {<<"a">>, <<"&amp;">>}
FullItems ==
    [Title : ItemTitles, Link : ItemLinks, Description : ItemDescriptions,
     PubDate : ItemDates]
RSSFeeds ==
    [Title : ItemTitles, Description : ItemDescriptions,
     Item : SeqsUpTo(FullItems, MaxItems)]
NoRSSFeed == [Title |-> << >>, Description |-> << >>, Item |-> << >>]

\* an unescape that treats every field of an item alike
unescapeEveryField(rss) ==
    [Title |-> UnescapeString(rss.Title),
     Description |-> UnescapeString(rss.Description),
     Item |-> [k \in DOMAIN rss.Item |->
                 [Title |-> UnescapeString(rss.Item[k].Title),
                  Link |-> UnescapeString(rss.Item[k].Link),
                  Description |-> UnescapeString(rss.Item[k].Description),
                  PubDate |-> UnescapeString(rss.Item[k].PubDate)]]]

\* unescapeHTMLFields: the channel's and every item's Title and Description
unescapeHTMLFields(rss) ==
    [rss EXCEPT
        !.Title = UnescapeString(@),
        !.Description = UnescapeString(@),
        !.Item = [k \in DOMAIN @ |->
                    [@[k] EXCEPT !.Title = UnescapeString(@),
                                 !.Description = UnescapeString(@)]]]

\* FetchFeed's last step (feeds.sql 122), on any decoded document
InitUnescape ==
    /\ InitState
    /\ OneFeed
    /\ feeds[1].last_fetched_at = Null
    /\ fetchCall \in {[resp |-> rss, out |-> NoRSSFeed, done |-> FALSE] : rss \in RSSFeeds}
CallUnescape ==
    /\ ~fetchCall.done
    /\ fetchCall' = [fetchCall EXCEPT !.out = unescapeHTMLFields(fetchCall.resp),
                                      !.done = TRUE]
    /\ UNCHANGED <<clock, store, result, loopVars>>
SpecUnescape == InitUnescape /\ [][CallUnescape]_vars

\* ------------------------------------------------------------------ claims
\* a step in which process p's selection query returns a feed
Selects(p) == pc[p] = "select" /\ pc'[p] = "mark"
\* a step in which process p's scrapeFeeds call returns
Returns(p) == pc[p] \in {"select", "fetch", "items"} /\ pc'[p] \in {"loop", "wait"}

\* three successive calls of process p, the latest three of its log, each of
\* which selected a feed, over the same three feeds
ThreeCalls(p) ==
    /\ Len(selLog[p]) >= 3
    /\ LET n == Len(selLog[p]) IN
       /\ \A k \in (n - 2)..n : selLog[p][k].id /= 0
       /\ \A k \in (n - 2)..n : DOMAIN selLog[p][k].lfa = DOMAIN selLog[p][n].lfa
       /\ Cardinality(DOMAIN selLog[p][n].lfa) = 3
       /\ selLog[p][n - 2].ok /\ selLog[p][n - 1].ok

LinksOf(items) == {items[k].Link : k \in 1..Len(items)}
PostUrls(ps) == {post.url : post \in ps}
\* the step in which process p has processed all items of a fetched feed
Processes(p) == pc[p] = "items" /\ pc'[p] \in {"loop", "wait"}

\* C2: after a scrapeFeeds call whose fetch and parse succeed, every parsed
\* entry whose URL was not stored before exists as a post of the selected feed.
C2_NewEntriesAreStored ==
    [][\A p \in Procs : Processes(p) =>
          \A k \in 1..Len(rssFeed[p]) :
             rssFeed[p][k].Link \notin PostUrls(posts) =>
                \E post \in posts' : /\ post.url = rssFeed[p][k].Link
                                     /\ post.feed_id = feed[p].id]_vars

InLoop == {"first", "select", "mark", "fetch", "items", "loop", "wait"}

\* C4: no failure inside a scrapeFeeds call ends the polling loop: a call that
\* meets a failure of the selection query or of the fetch returns to handlerAgg,
\* a failure of the mark-fetched update lets the call go on, a process in the
\* loop stays in it, and the only way on from the loop head is a new call,
\* which starts with no feed selected.
C4_FailuresKeepTheLoop ==
    [][\A p \in Procs :
         /\ pc[p] \in InLoop => pc'[p] \in InLoop
         /\ (pc[p] = "select" /\ pc'[p] \notin {"select", "mark"}) => Returns(p)
         /\ (pc[p] = "mark" /\ pc'[p] /= "mark") => pc'[p] = "fetch"
         /\ (pc[p] = "fetch" /\ pc'[p] \notin {"fetch", "items"}) => Returns(p)
         /\ (pc[p] = "loop" /\ pc'[p] /= "loop") =>
                (pc'[p] = "select" /\ feed'[p] = NoFeed)]_vars

\* C4 witness: after a call whose fetch got a non-success HTTP status, a new
\* call has run its selection over the feeds
C4_Witness ==
    /\ pc[1] = "mark" /\ outcome[1] = "status" /\ cycles[1] >= 2
    /\ feed[1].id \in DOMAIN feeds

\* process p is between two calls and its latest call selected a feed that is
\* in the store
AfterCallOn(p) ==
    /\ pc[p] \in {"loop", "wait"}
    /\ selLog[p] /= <<>>
    /\ selLog[p][Len(selLog[p])].id \in DOMAIN feeds
Last(p) == selLog[p][Len(selLog[p])]
\* the feed selected by p's latest call has that call's time as last_fetched_at,
\* which is not older than the value it had when it was selected
Advanced(p) ==
    LET row == feeds[Last(p).id] IN
    /\ row.last_fetched_at = now[p]
    /\ row.last_fetched_at /= Null
    /\ FetchOrderLeq(Last(p).lfa[Last(p).id], row.last_fetched_at)

Transient == {"neterr", "timeout"}

PastMark(p) == pc[p] \in {"fetch", "items"} /\ feed[p].id \in DOMAIN feeds

\* C7 as claimed: inside a call the selected feed's last_fetched_at is written
\* only after the fetch, the parse and the processing of the entries: until the
\* call returns the row has the value it was selected with.
C7_MarkedAfterProcessing ==
    \A p \in Procs : PastMark(p) =>
        feeds[feed[p].id].last_fetched_at = feed[p].last_fetched_at

\* C7: inside a call the selected feed's last_fetched_at is written right after
\* the selection, before the fetch starts, and by no later step; the value
\* written is the time the call read when it started, before the selection. (A
\* process stopped in the middle of a call can therefore leave a feed marked as
\* fetched whose entries were not processed.)
C7_MarkedBeforeFetch ==
    /\ [](\A p \in Procs : (PastMark(p) /\ markOk[p]) =>
            /\ feeds[feed[p].id].last_fetched_at = now[p]
            /\ feeds[feed[p].id].updated_at = now[p])
    /\ [][feeds' /= feeds => \E p \in Procs : pc[p] = "mark" /\ pc'[p] = "fetch"]_vars

\* C7 witness: the process was stopped before the fetch of a feed that it has
\* marked as fetched, a unit of time after the call started
C7_Witness ==
    /\ ~alive[1] /\ pc[1] = "fetch" /\ markOk[1]
    /\ feed[1].last_fetched_at = Null
    /\ feeds[feed[1].id].last_fetched_at = now[1]
    /\ clock > now[1]

\* C8: whenever a call of the loop starts after another one, a full interval
\* has passed since that one returned.
C8_FullIntervalBetweenCalls ==
    \A p \in Procs : (pc[p] = "select" /\ cycles[p] >= 2) =>
        now[p] - lastEnd[p] >= interval[p]

\* C9: no two agg processes are at the fetch of the same feed at the same time.
C9_OneFetchPerFeed ==
    \A p, q \in Procs :
        (p /= q /\ pc[p] = "fetch" /\ pc[q] = "fetch") => feed[p].id /= feed[q].id

\* the latest n entries of p's log are calls that each selected a feed, all but
\* the latest with a mark-fetched update that returned no error
MarkedRun(p, n) ==
    /\ Len(selLog[p]) >= n
    /\ \A k \in (Len(selLog[p]) - n + 1)..Len(selLog[p]) :
          /\ selLog[p][k].id /= 0
          /\ k < Len(selLog[p]) => selLog[p][k].ok
RunIds(p, n) == {selLog[p][k].id : k \in (Len(selLog[p]) - n + 1)..Len(selLog[p])}

CallStep(p) == pc[p] \in {"select", "mark", "fetch", "items"} /\ pc'[p] /= pc[p]
\* rows a and b differ in nothing but last_fetched_at and updated_at
SameButTimestamps(a, b) ==
    /\ a.id = b.id /\ a.name = b.name /\ a.url = b.url /\ a.user_id = b.user_id

\* C11: a step of a scrapeFeeds call changes nothing in the store but the
\* last_fetched_at and updated_at of the feed the call selected: the users, the
\* follows, the set of feeds, every other feed, and the selected feed's id, name,
\* URL and owner stay as they are.
C11_OnlySelectedFeedsTimestamps ==
    [][\A p \in Procs : CallStep(p) =>
          /\ users' = users /\ follows' = follows
          /\ DOMAIN feeds' = DOMAIN feeds
          /\ \A i \in DOMAIN feeds :
               IF i = feed[p].id THEN SameButTimestamps(feeds'[i], feeds[i])
               ELSE feeds'[i] = feeds[i]]_vars

\* C11 witness: a call over three feeds has marked the feed it selected, which
\* had been fetched before, and is at the fetch
C11_Witness ==
    /\ pc[1] = "fetch" /\ markOk[1]
    /\ Cardinality(DOMAIN feeds) = 3
    /\ feed[1].last_fetched_at /= Null
    /\ feeds[feed[1].id].last_fetched_at = now[1]
    /\ feeds[feed[1].id] /= feed[1]

\* C12: a scrapeFeeds call that finds no feed in the store returns to the loop
\* from its selection, having changed nothing in the store: it is at the mark,
\* the fetch or the items only with a feed that the selection returned; and from
\* the head of the loop the process goes on to a new call, which selects again.
C12_NoFeedsLeavesStoreAndLoop ==
    /\ [](\A p \in Procs : pc[p] \in {"mark", "fetch", "items"} => feed[p].id /= 0)
    /\ [][\A p \in Procs :
            /\ (pc[p] = "select" /\ pc'[p] /= "select" /\ DOMAIN feeds = {}) =>
                  /\ Returns(p)
                  /\ feed'[p] = NoFeed /\ fetchStart'[p] = Null
                  /\ store' = store
            /\ (pc[p] = "loop" /\ pc'[p] /= "loop") => pc'[p] = "select"]_vars

\* C12 witness: after a call that found no feed, the next call of the loop has
\* selected a feed that addfeed added in between
C12_Witness ==
    /\ pc[1] = "mark" /\ outcome[1] = "nofeeds" /\ cycles[1] = 2
    /\ feed[1].id \in DOMAIN feeds
    /\ result = Result("addfeed", TRUE, feed[1].url)

\* C13: a fetch in progress has started at most FetchTimeout (10 seconds) ago;
\* the fetch ends with a result (the items are processed next) or with an error
\* (the call returns to the loop); and a fetch whose deadline lies within the
\* time that is followed always ends, also when the server never answers.
C13_FetchEndsWithinBudget ==
    /\ [](\A p \in Procs : (alive[p] /\ pc[p] = "fetch") =>
            /\ fetchStart[p] /= Null
            /\ clock - fetchStart[p] <= FetchTimeout)
    /\ [][\A p \in Procs : (pc[p] = "fetch" /\ pc'[p] /= "fetch") =>
            /\ pc'[p] \in {"items", "loop", "wait"}
            /\ clock' - fetchStart[p] <= FetchTimeout]_vars
    /\ \A p \in {1} :
         (pc[p] = "fetch" /\ fetchStart[p] + FetchTimeout <= MaxClock)
            ~> (pc[p] /= "fetch")

\* C13 witness: a call whose fetch ran into its deadline has returned to the
\* loop, a whole budget after the fetch started
C13_Witness ==
    /\ pc[1] \in {"loop", "wait"} /\ outcome[1] = "timeout"
    /\ lastEnd[1] - now[1] >= FetchTimeout

\* the last_fetched_at that the feed of the k-th logged selection of p had when
\* it was selected
OldLastFetchedAt(p, k) == selLog[p][k].lfa[selLog[p][k].id]

C15_StatusErrorIffNot2xx ==
    (fetchCall.out /= NoResult /\ fetchCall.resp.kind = "http") =>
        LET resp == fetchCall.resp
            out == fetchCall.out
        IN /\ (out.err = "status") <=> (resp.status \notin 200..299)
           /\ (out.err = "status") => (out.code = resp.status)
           /\ (resp.status \in 200..299 /\ WellFormedDocument(resp) /\ resp.root = "rss") =>
                 (out.err = "" /\ out.items = resp.items)

\* C16: when addfeed has exited with status 0 the store holds the new feed and
\* a follow that links the current user to it.
C16_AddfeedSuccessMeansFollowed ==
    (result.cmd = "addfeed" /\ result.ok) =>
        \E i \in DOMAIN feeds :
            /\ feeds[i].url = result.arg
            /\ FollowsOf(follows, config, i) /= {}

\* the commands registered behind middlewareLoggedIn
LoggedInCommands == {"addfeed", "follow", "unfollow", "following"}

\* C17: when the config holds no user id, an id that does not parse, or the id
\* of no user in the store, a run of addfeed, follow, unfollow or following
\* fails and changes neither the feeds, the follows nor the config.
C17_LoggedInCommandsNeedUser ==
    [][((\/ config = NoUser
         \/ ~ParsesAsUUID(config)
         \/ ~ \E u \in users : u.id = config)
        /\ result'.cmd \in LoggedInCommands) =>
          /\ ~result'.ok
          /\ UNCHANGED <<feeds, follows, config>>]_vars

\* C17 witness: the config holds the id of a user that reset has removed, and
\* an addfeed with good arguments has failed
C17_Witness ==
    /\ ParsesAsUUID(config) /\ GetUserByID(users, config) = {}
    /\ result = Failed("addfeed", "a")

\* C18: a register or login of name N that exits with status 0 leaves in the
\* config the id of a user named N of the store; a login with a name that no
\* user of the store has fails and leaves the config as it was.
C18_ConfigHoldsTheNamedUser ==
    /\ [][(result'.cmd \in {"register", "login"} /\ result'.ok) =>
             \E u \in users' : u.id = config' /\ u.name = result'.arg]_vars
    /\ [][(result'.cmd = "login" /\ ~ \E u \in users : u.name = result'.arg) =>
             (~result'.ok /\ config' = config)]_vars

\* C18 witness: with alice and bob registered, a login of bob has succeeded and
\* the config holds bob's id, not alice's
C18_Witness ==
    /\ result = Result("login", TRUE, "bob")
    /\ \E a, b \in users :
          /\ a.name = "alice" /\ b.name = "bob" /\ a.id < b.id
          /\ config = b.id

\* C19: no two feeds have the same URL; an addfeed whose URL a feed of the store
\* already has fails and leaves the feeds and the follows as they were.
C19_FeedUrlsUnique ==
    /\ [](\A i, j \in DOMAIN feeds : feeds[i].url = feeds[j].url => i = j)
    /\ [][(/\ result'.cmd = "addfeed"
           /\ \E i \in DOMAIN feeds : feeds[i].url = result'.arg) =>
             (~result'.ok /\ UNCHANGED <<feeds, follows>>)]_vars

\* C19 witness: a logged-in user's addfeed of a URL that a feed already has
\* has failed
C19_Witness ==
    /\ result = Failed("addfeed", "a")
    /\ middlewareLoggedIn /= {}
    /\ \E i \in DOMAIN feeds : feeds[i].url = "a"

\* C20: a command of another process, whether it succeeds or fails, changes
\* nothing of a running agg process and the process never ends; a call whose
\* feed was removed by reset after its selection runs its mark-fetched update
\* over no row, goes on to the fetch and returns to the loop.
C20_CommandsKeepTheLoop ==
    /\ [](\A p \in Procs : pc[p] \notin {"exited", "panicked"})
    /\ [][result' /= result => UNCHANGED loopVars]_vars
    /\ [][\A p \in Procs :
            /\ pc[p] \in InLoop => pc'[p] \in InLoop
            /\ (pc[p] = "mark" /\ feed[p].id \notin DOMAIN feeds /\ pc'[p] /= "mark") =>
                  (pc'[p] = "fetch" /\ feeds' = feeds)]_vars

\* C20 witness: reset has emptied the tables after the second call of the loop
\* selected its feed and before that call's mark-fetched update
C20_Witness ==
    /\ pc[1] = "mark" /\ cycles[1] = 2
    /\ feed[1].id /= 0 /\ feed[1].id \notin DOMAIN feeds
    /\ result = Result("reset", TRUE, "")

\* C21: a command line whose name is not registered ends with an error and
\* changes neither the store nor the config nor any agg process; a registered
\* name, in whatever letter case it is typed, runs the handler registered under
\* it and no other.
C21_DispatchByName ==
    [][\A argv \in CommandLines : main(argv) =>
         IF argv = << >> \/ argv[1].name \notin Registered
         THEN /\ ~result'.ok
              /\ result'.cmd \notin Registered
              /\ UNCHANGED <<store, loopVars>>
         ELSE IF argv[1].name = "agg"
         THEN /\ \E p \in Procs : pc[p] = "off" /\ pc'[p] /= "off"
              /\ UNCHANGED <<store, result>>
         ELSE /\ result'.cmd = argv[1].name
              /\ UNCHANGED loopVars]_vars

\* C21 witness: an unknown command has failed over a store that holds a user
\* and a feed, with an agg process started
C21_Witness ==
    /\ result = Failed("unknown", "")
    /\ users /= {} /\ DOMAIN feeds /= {}
    /\ pc[1] = "first"

\* C22: a well-formed RSS document with no item is fetched with success and
\* yields no entries; a document that is not well-formed XML, or whose root
\* element is not rss, yields an error and no entries.
C22_ParseOutcome ==
    (fetchCall.out /= NoResult /\ fetchCall.resp.kind = "http"
        /\ fetchCall.resp.status = 200) =>
        LET resp == fetchCall.resp
            out == fetchCall.out
        IN /\ (WellFormedDocument(resp) /\ resp.root = "rss" /\ resp.items = <<>>) =>
                 (out.err = "" /\ out.items = <<>>)
           /\ (~WellFormedDocument(resp) \/ resp.root /= "rss") =>
                 (out.err /= "" /\ out.items = <<>>)

\* the characters of a text, with every character reference already replaced
NoReference(text) == \A k \in DOMAIN text : text[k] \notin {"&amp;", "&#39;"}

\* C23: after the decoding step the title and the description of the channel
\* and of every item are the entity-decoded texts of the document's fields,
\* and the items are as many, in the same order, with the same link and pubDate.
C23_OnlyTitlesAndDescriptionsDecoded ==
    fetchCall.done =>
        LET doc == fetchCall.resp
            out == fetchCall.out
        IN /\ out.Title = UnescapeString(doc.Title) /\ NoReference(out.Title)
           /\ out.Description = UnescapeString(doc.Description)
           /\ Len(out.Item) = Len(doc.Item)
           /\ \A k \in DOMAIN doc.Item :
                /\ out.Item[k].Title = UnescapeString(doc.Item[k].Title)
                /\ NoReference(out.Item[k].Title)
                /\ out.Item[k].Description = UnescapeString(doc.Item[k].Description)
                /\ NoReference(out.Item[k].Description)
                /\ out.Item[k].Link = doc.Item[k].Link
                /\ out.Item[k].PubDate = doc.Item[k].PubDate

\* C23 witness: a document of two items, whose titles, link and pubDate hold
\* character references, has been decoded
C23_Witness ==
    /\ fetchCall.done
    /\ Len(fetchCall.resp.Item) = 2
    /\ fetchCall.resp.Item[1].Title = <<"a", "&#39;">>
    /\ fetchCall.out.Item[1].Title = <<"a", "'">>
    /\ fetchCall.resp.Item[2].Link = <<"a", "&amp;">>
    /\ fetchCall.resp.Item[2].PubDate = <<"&amp;">>
    /\ fetchCall.resp.Item[1] /= fetchCall.resp.Item[2]

\* the statements a scrapeFeeds call can go to from each of its steps
NextSteps(at) ==
    CASE at = "select" -> {"mark", "loop", "wait"}
      [] at = "mark" -> {"fetch"}
      [] at = "fetch" -> {"items", "loop", "wait"}
      [] at = "items" -> {"loop", "wait"}

\* C24: a call runs its steps in order and once each: one selection, then one
\* mark-fetched update of the selected feed and of no other, then one fetch,
\* whose failure ends the call; the call's feed is set by the selection alone
\* and stays the same until the call returns, and a selection is always the
\* first step of a new call.
C24_OneFeedPerCycle ==
    [][\A p \in Procs :
         /\ (pc[p] \in {"select", "mark", "fetch", "items"} /\ pc'[p] /= pc[p]) =>
                pc'[p] \in NextSteps(pc[p])
         /\ (pc'[p] = "select" /\ pc[p] /= "select") =>
                (pc[p] \in {"first", "loop"} /\ cycles'[p] = cycles[p] + 1)
         /\ cycles'[p] /= cycles[p] => (pc'[p] = "select" /\ pc[p] /= "select")
         /\ feed'[p] /= feed[p] =>
                \/ pc[p] = "select" /\ pc'[p] = "mark" /\ feed'[p] \in FeedRows
                \/ feed'[p] = NoFeed /\ pc'[p] \in {"loop", "wait"}
         /\ (pc[p] = "mark" /\ pc'[p] = "fetch") =>
                \A i \in DOMAIN feeds : i /= feed[p].id => feeds'[i] = feeds[i]
         /\ (pc[p] = "fetch" /\ pc'[p] = "fetch") =>
                (fetchStart'[p] = fetchStart[p] /\ feeds' = feeds)]_vars

\* C24 witness: the first call of the loop has returned after a failed fetch,
\* over a store of several feeds of which it has marked one and no other
C24_Witness ==
    /\ pc[1] \in {"loop", "wait"} /\ cycles[1] = 1 /\ outcome[1] = "neterr"
    /\ Cardinality(DOMAIN feeds) >= 2
    /\ Cardinality({i \in DOMAIN feeds : feeds[i].last_fetched_at = now[1]}) = 1
    /\ Len(selLog[1]) = 1 /\ selLog[1][1].ok

\* an argument list of agg that holds exactly one positive duration
OnePositiveDuration(args) ==
    /\ Len(args) = 1
    /\ ~ParseDuration(args[1]).err
    /\ ParseDuration(args[1]).d > 0

\* C25: agg given one argument that parses as a positive duration starts its
\* loop; given anything else it returns an error, and no call of scrapeFeeds,
\* hence no selection, mark-fetched update or fetch, is made.
C25_AggNeedsOnePositiveDuration ==
    [][\A p \in Procs : \A args \in AggArgs :
         handlerAgg(p, {args}) =>
            IF OnePositiveDuration(args)
            THEN pc'[p] = "first" /\ interval'[p] = ParseDuration(args[1]).d
            ELSE /\ pc'[p] = "exited"
                 /\ cycles'[p] = 0 /\ selLog'[p] = << >>
                 /\ UNCHANGED store]_vars

\* C26: no user follows a feed twice; a follow by a user who already follows
\* the feed fails and leaves the follows as they were; and a follow of a URL
\* that no feed has fails and creates neither a feed nor a follow.
C26_OneFollowPerUserAndFeed ==
    /\ [](\A r, q \in follows :
            (r.user_id = q.user_id /\ r.feed_id = q.feed_id) => r = q)
    /\ [][(/\ result'.cmd = "follow"
           /\ \E i \in DOMAIN feeds :
                 feeds[i].url = result'.arg /\ FollowsOf(follows, config, i) /= {}) =>
             (~result'.ok /\ UNCHANGED <<feeds, follows>>)]_vars
    /\ [][(/\ result'.cmd = "follow"
           /\ ~ \E i \in DOMAIN feeds : feeds[i].url = result'.arg) =>
             (~result'.ok /\ UNCHANGED <<feeds, follows>>)]_vars

\* C26 witness: the current user, who follows the feed of URL a, has run
\* follow on it again, which failed
C26_Witness ==
    /\ result = Failed("follow", "a")
    /\ middlewareLoggedIn /= {}
    /\ \E i \in DOMAIN feeds : feeds[i].url = "a" /\ FollowsOf(follows, config, i) /= {}

\* the tables are empty
EmptyStore == users = {} /\ feeds = << >> /\ follows = {} /\ posts = {}

\* C27: a reset that succeeds empties users, feeds, follows and posts and
\* leaves the config as it was; and as long as the config holds the id of no
\* user of the store, which is so from a reset until a register or a login
\* succeeds, every command behind the login check fails and writes nothing.
C27_ResetKeepsConfigAndLocksOut ==
    /\ [][(result'.cmd = "reset" /\ result'.ok) =>
             (EmptyStore' /\ config' = config)]_vars
    /\ [][((~ \E u \in users : u.id = config) /\ config' /= config) =>
             (result'.cmd \in {"register", "login"} /\ result'.ok)]_vars
    /\ [][((~ \E u \in users : u.id = config) /\ result'.cmd \in LoggedInCommands) =>
             (~result'.ok /\ UNCHANGED store)]_vars

\* C27 witness: after a reset that removed the current user and her feed, whose
\* id the config still holds, a following has failed over the empty store
C27_Witness ==
    /\ result = Failed("following", "")
    /\ EmptyStore
    /\ ParsesAsUUID(config) /\ nextId.feed >= 1

====
